---- MODULE Spec2Model ----
(***************************************************************************)
(* Model of consumers/consumer_vrtachnik.py: a JSON-Lines consumer that    *)
(* reads a live data file, enriches every record (sentiment label and      *)
(* engagement score) and inserts it into SQLite.                           *)
(*                                                                         *)
(* Numbers: a Python float is a record [k, v]; k = "fin" carries the value *)
(* in hundredths (v = 90 is 0.90), k = "nan" is the IEEE NaN.  A Python    *)
(* int is a record [k, v]; k = "huge" is an integer too large for a float  *)
(* (more than 308 decimal digits), which json.loads does produce.          *)
(***************************************************************************)
EXTENDS Integers, Sequences, FiniteSets, TLC

VARIABLES
    pc,                \* position of the single flow of control
    exitStatus,        \* process exit status, Running while the process lives
    cause,             \* why the process ended
    file,              \* the lines of the live data file
    terminated,        \* TRUE iff the last line of the file ends in a newline
    fileExists,        \* the live data file exists
    last_position,     \* consume_messages_from_file: last_position
    idx,               \* number of lines the file iterator has yielded
    message,           \* consume_messages_from_file: message
    processed_message, \* consume_messages_from_file: processed_message
    dbExists,          \* the SQLite file exists
    store,             \* the rows of the SQLite table
    priorStore,        \* the rows of the SQLite table when the process started
    handleOpen,        \* the read handle of the `with open(...)` block
    opens,             \* how many times the file was opened
    decodeCalls,       \* line numbers json.loads was called on
    insertCalls,       \* <<line number, row>> for every insert_message call
    log                \* logger.error / logger.warning calls, in order

vars == <<pc, exitStatus, cause, file, terminated, fileExists, last_position,
          idx, message, processed_message, dbExists, store, priorStore,
          handleOpen, opens, decodeCalls, insertCalls, log>>

----------------------------------------------------------------------------
(* Bounds *)

MaxLines == 2

\* sentiment scores -ScoreMax..ScoreMax (hundredths) are fed to process_message
ScoreMax == 65

----------------------------------------------------------------------------
(* Python values *)

Fin(v) == [k |-> "fin", v |-> v]
NaN == [k |-> "nan", v |-> 0]

PyInt(n) == [k |-> "int", v |-> n]
HugeInt == [k |-> "huge", v |-> 0]

\* float comparisons: every comparison with NaN is False
FLe(a, b) == a.k = "fin" /\ b.k = "fin" /\ a.v <= b.v
FLt(a, b) == a.k = "fin" /\ b.k = "fin" /\ a.v < b.v

Abs(n) == IF n < 0 THEN -n ELSE n

\* truncation toward zero of a value given in hundredths
Trunc(h) == IF h >= 0 THEN h \div 100 ELSE -((-h) \div 100)

\* decoded JSON values
RAbsent == [t |-> "absent", v |-> 0, s |-> ""]
RNull == [t |-> "null", v |-> 0, s |-> ""]
RInt(n) == [t |-> "int", v |-> n, s |-> ""]
RFloat(h) == [t |-> "float", v |-> h, s |-> ""]
RNaN == [t |-> "nan", v |-> 0, s |-> ""]
RHuge == [t |-> "huge", v |-> 0, s |-> ""]
RBool(b) == [t |-> "bool", v |-> IF b THEN 1 ELSE 0, s |-> ""]
RStr(s) == [t |-> "str", v |-> 0, s |-> s]

\* the strings float() accepts, with their value in hundredths
FloatLiterals == [x \in {"0.9", "-0.9", "5", "-5"} |->
                    CASE x = "0.9" -> 90 [] x = "-0.9" -> -90
                      [] x = "5" -> 500 [] x = "-5" -> -500]

\* the strings int() accepts
IntLiterals == [x \in {"5", "-5"} |-> CASE x = "5" -> 5 [] x = "-5" -> -5]

----------------------------------------------------------------------------
(* classify_sentiment *)

\* classify_sentiment with the first boundary exclusive
classify_sentiment_strict(score) ==
    IF FLt(score, Fin(-60)) THEN "Very Negative"
    ELSE IF FLt(score, Fin(-20)) THEN "Negative"
    ELSE IF FLe(score, Fin(20)) THEN "Neutral"
    ELSE IF FLt(score, Fin(60)) THEN "Positive"
    ELSE "Very Positive"

\* classify_sentiment with the labels of two branches exchanged
classify_sentiment_swapped(score) ==
    IF FLe(score, Fin(-60)) THEN "Very Negative"
    ELSE IF FLt(score, Fin(-20)) THEN "Negative"
    ELSE IF FLe(score, Fin(20)) THEN "Positive"
    ELSE IF FLt(score, Fin(60)) THEN "Neutral"
    ELSE "Very Positive"

classify_sentiment(score) ==
    IF FLe(score, Fin(-60)) THEN "Very Negative"
    ELSE IF FLt(score, Fin(-20)) THEN "Negative"
    ELSE IF FLe(score, Fin(20)) THEN "Neutral"
    ELSE IF FLt(score, Fin(60)) THEN "Positive"
    ELSE "Very Positive"

----------------------------------------------------------------------------
(* process_message *)

\* float(x) that turns a string it cannot parse into 0.0
py_float_lenient(x) ==
    CASE x.t = "int" -> [ok |-> TRUE, val |-> Fin(100 * x.v)]
      [] x.t = "float" -> [ok |-> TRUE, val |-> Fin(x.v)]
      [] x.t = "nan" -> [ok |-> TRUE, val |-> NaN]
      [] x.t = "bool" -> [ok |-> TRUE, val |-> Fin(100 * x.v)]
      [] x.t = "str" -> IF x.s \in DOMAIN FloatLiterals
                          THEN [ok |-> TRUE, val |-> Fin(FloatLiterals[x.s])]
                          ELSE [ok |-> TRUE, val |-> Fin(0)]
      [] OTHER -> [ok |-> FALSE, val |-> NaN]

\* float(x): [ok, val]; ok = FALSE is a raised ValueError/TypeError/OverflowError
py_float(x) ==
    CASE x.t = "int" -> [ok |-> TRUE, val |-> Fin(100 * x.v)]
      [] x.t = "float" -> [ok |-> TRUE, val |-> Fin(x.v)]
      [] x.t = "nan" -> [ok |-> TRUE, val |-> NaN]
      [] x.t = "bool" -> [ok |-> TRUE, val |-> Fin(100 * x.v)]
      [] x.t = "str" -> IF x.s \in DOMAIN FloatLiterals
                          THEN [ok |-> TRUE, val |-> Fin(FloatLiterals[x.s])]
                          ELSE [ok |-> FALSE, val |-> NaN]
      [] OTHER -> [ok |-> FALSE, val |-> NaN]

\* int(x): [ok, val]
py_int(x) ==
    CASE x.t = "int" -> [ok |-> TRUE, val |-> PyInt(x.v)]
      [] x.t = "float" -> [ok |-> TRUE, val |-> PyInt(Trunc(x.v))]
      [] x.t = "huge" -> [ok |-> TRUE, val |-> HugeInt]
      [] x.t = "bool" -> [ok |-> TRUE, val |-> PyInt(x.v)]
      [] x.t = "str" -> IF x.s \in DOMAIN IntLiterals
                          THEN [ok |-> TRUE, val |-> PyInt(IntLiterals[x.s])]
                          ELSE [ok |-> FALSE, val |-> PyInt(0)]
      [] OTHER -> [ok |-> FALSE, val |-> PyInt(0)]

\* message.get(key) with the default left out: a missing key gives None
py_get_nodefault(value, default) == IF value.t = "absent" THEN RNull ELSE value

\* message.get(key, default) on a decoded object
py_get(value, default) == IF value.t = "absent" THEN default ELSE value

\* sentiment * msg_len, the abs() forgotten
engagement_score_noabs(sentiment, msg_len) ==
    IF msg_len.k = "huge" THEN [ok |-> FALSE, val |-> NaN]
    ELSE IF sentiment.k = "nan" THEN [ok |-> TRUE, val |-> NaN]
    ELSE [ok |-> TRUE, val |-> Fin(sentiment.v * msg_len.v)]

\* abs(sentiment) * msg_len: [ok, val]; a huge int cannot be converted to float
engagement_score(sentiment, msg_len) ==
    IF msg_len.k = "huge" THEN [ok |-> FALSE, val |-> NaN]
    ELSE IF sentiment.k = "nan" THEN [ok |-> TRUE, val |-> NaN]
    ELSE [ok |-> TRUE, val |-> Fin(Abs(sentiment.v) * msg_len.v)]

None == [some |-> FALSE, message |-> RNull, sentiment |-> NaN,
         message_length |-> 0, sentiment_label |-> "",
         engagement_score |-> NaN]

process_message(m) ==
    IF ~m.isdict THEN None                      \* message.get raises
    ELSE LET sentiment == py_float(py_get(m.sentiment, RFloat(0)))
             msg_len == py_int(py_get(m.message_length, RInt(0)))
             score == engagement_score(sentiment.val, msg_len.val)
         IN IF ~sentiment.ok \/ ~msg_len.ok \/ ~score.ok THEN None
            ELSE [some |-> TRUE,
                  message |-> py_get(m.message, RNull),
                  sentiment |-> sentiment.val,
                  message_length |-> msg_len.val.v,
                  sentiment_label |-> classify_sentiment(sentiment.val),
                  engagement_score |-> score.val]

----------------------------------------------------------------------------
(* The live data file *)

Obj(msg, sentiment, message_length) ==
    [isdict |-> TRUE, message |-> msg, sentiment |-> sentiment,
     message_length |-> message_length]

NoMessage == [isdict |-> FALSE, message |-> RAbsent, sentiment |-> RAbsent,
              message_length |-> RAbsent]

\* a line: kind "blank" (whitespace only), "badjson" (text json.loads
\* rejects) or "json" (text of the JSON value val); n = bytes of its text
JsonLine(val, n) == [kind |-> "json", val |-> val, n |-> n]

LineHi == JsonLine(Obj(RStr("hi"), RFloat(90), RInt(10)), 52)
LineBye == JsonLine(Obj(RStr("bye"), RFloat(-90), RInt(5)), 53)
LineNA == JsonLine(Obj(RStr("na"), RStr("N/A"), RInt(3)), 53)
LineNegLen == JsonLine(Obj(RStr("neg"), RFloat(50), RInt(-5)), 53)
LineLenStr == JsonLine(Obj(RStr("len"), RFloat(50), RStr("3.7")), 55)
LineHuge == JsonLine(Obj(RStr("big"), RFloat(50), RHuge), 452)
LineEmptyObj == JsonLine(Obj(RAbsent, RAbsent, RAbsent), 2)
LineList == JsonLine(NoMessage, 3)
LineBad == [kind |-> "badjson", val |-> NoMessage, n |-> 6]
LineBlank == [kind |-> "blank", val |-> NoMessage, n |-> 2]

Lines == {LineHi, LineBye, LineNA, LineLenStr, LineNegLen, LineHuge,
          LineEmptyObj, LineList, LineBad, LineBlank}

Files == UNION {[1..n -> Lines] : n \in 0..MaxLines}

\* the bytes of the text only, the newline not counted
LineBytes_nonl(f, term, i) == f[i].n

\* bytes of line i of file f, its newline included when it has one
LineBytes(f, term, i) == f[i].n + (IF i < Len(f) \/ term THEN 1 ELSE 0)

RECURSIVE Offset(_, _, _)
\* byte offset just after line i
Offset(f, term, i) ==
    IF i = 0 THEN 0 ELSE Offset(f, term, i - 1) + LineBytes(f, term, i)

\* the blank-line test left out
IsBlank_never(line) == FALSE

\* not line.strip()
IsBlank(line) == line.kind = "blank"

\* json.loads(line.strip()): [ok, val]; ok = FALSE is a raised JSONDecodeError
json_loads(line) ==
    IF line.kind = "json" THEN [ok |-> TRUE, val |-> line.val]
    ELSE [ok |-> FALSE, val |-> NoMessage]

----------------------------------------------------------------------------
(* sqlite_consumer_case: init_db, insert_message *)

\* init_db(sql_path): creates the table if absent, keeps existing rows
init_db(rows) == rows

\* insert_message(row, sql_path): appends one row
insert_message(row, rows) == Append(rows, row)

\* outcomes of one insert_message call: the row is stored, or the failure
\* is reported to the caller
InsertOutcomes == {"ok", "raise"}

\* the test dropped: every result is inserted
Truthy_always(pm) == TRUE

\* if processed_message:
Truthy(pm) == pm.some

\* the prior database file survives the fresh start
unlink_keep(rows) == rows

\* sqlite_path.unlink(): the database file is gone, and every row with it
unlink(rows) == <<>>

RECURSIVE RowsOfFile(_)
\* the rows a pass over the lines f stores: one per line that decodes and
\* that process_message accepts, in file order
RowsOfFile(f) ==
    IF f = <<>> THEN <<>>
    ELSE LET front == SubSeq(f, 1, Len(f) - 1)
             line == f[Len(f)]
             row == process_message(json_loads(line).val)
         IN IF json_loads(line).ok /\ Truthy(row)
              THEN Append(RowsOfFile(front), row)
              ELSE RowsOfFile(front)

PriorRow == [some |-> TRUE, message |-> RStr("old"), sentiment |-> Fin(0),
             message_length |-> 0, sentiment_label |-> "Neutral",
             engagement_score |-> Fin(0)]

----------------------------------------------------------------------------
(* Exit statuses *)

Running == -1
EXIT_CLEAN == 0
EXIT_CONFIG == 1
EXIT_INIT == 3
EXIT_READ_ERROR == 11

\* the status of the next step used for a failed deletion
EXIT_DELETE_as_init == EXIT_INIT

EXIT_DELETE == 2

\* the status of a read error used for a missing file
EXIT_NOT_FOUND_as_read == EXIT_READ_ERROR

EXIT_NOT_FOUND == 10

\* the process ends with the given status; c names the condition
Exit(status, c, entries) ==
    /\ pc' = "done"
    /\ exitStatus' = status
    /\ cause' = c
    /\ log' = log \o entries

----------------------------------------------------------------------------
(* Initial states *)

Init ==
    /\ pc = "read_config"
    /\ exitStatus = Running
    /\ cause = "none"
    /\ fileExists \in BOOLEAN
    /\ file \in (IF fileExists THEN Files ELSE {<<>>})
    /\ terminated \in (IF Len(file) > 0 THEN BOOLEAN ELSE {TRUE})
    /\ last_position = 0
    /\ idx = 0
    /\ message = NoMessage
    /\ processed_message = None
    /\ dbExists \in BOOLEAN
    /\ store \in (IF dbExists THEN {<<>>, <<PriorRow>>, RowsOfFile(file)}
                            ELSE {<<>>})
    /\ priorStore = store
    /\ handleOpen = FALSE
    /\ opens = 0
    /\ decodeCalls = <<>>
    /\ insertCalls = <<>>
    /\ log = <<>>

----------------------------------------------------------------------------
(* main: STEP 1 - STEP 3 *)

\* STEP 1: read the environment variables, sys.exit(1) when that raises
ReadConfig ==
    /\ pc = "read_config"
    /\ \E ok \in BOOLEAN :
         IF ok
           THEN /\ pc' = "delete_db"
                /\ UNCHANGED <<exitStatus, cause, log>>
           ELSE Exit(EXIT_CONFIG, "config", <<"error">>)
    /\ UNCHANGED <<priorStore, file, terminated, fileExists, last_position, idx, message,
                   processed_message, dbExists, store, handleOpen, opens,
                   decodeCalls, insertCalls>>

\* STEP 2: unlink a prior database file, sys.exit(2) when that raises
DeletePrior ==
    /\ pc = "delete_db"
    /\ IF dbExists
         THEN \E ok \in BOOLEAN :
                IF ok
                  THEN /\ dbExists' = FALSE
                       /\ store' = unlink(store)
                       /\ pc' = "init_db"
                       /\ UNCHANGED <<exitStatus, cause, log>>
                  ELSE /\ Exit(EXIT_DELETE, "delete", <<"error">>)
                       /\ UNCHANGED <<dbExists, store>>
         ELSE /\ pc' = "init_db"
              /\ UNCHANGED <<dbExists, store, exitStatus, cause, log>>
    /\ UNCHANGED <<priorStore, file, terminated, fileExists, last_position, idx, message,
                   processed_message, handleOpen, opens, decodeCalls,
                   insertCalls>>

\* STEP 3: init_db(sqlite_path), sys.exit(3) when that raises
InitDb ==
    /\ pc = "init_db"
    /\ \E ok \in BOOLEAN :
         IF ok
           THEN /\ dbExists' = TRUE
                /\ store' = init_db(store)
                /\ pc' = "consume"
                /\ UNCHANGED <<exitStatus, cause, log>>
           ELSE /\ Exit(EXIT_INIT, "init", <<"error">>)
                /\ UNCHANGED <<dbExists, store>>
    /\ UNCHANGED <<priorStore, file, terminated, fileExists, last_position, idx, message,
                   processed_message, handleOpen, opens, decodeCalls,
                   insertCalls>>

----------------------------------------------------------------------------
(* consume_messages_from_file *)

\* the positions inside consume_messages_from_file
ConsumePcs == {"consume", "reset_position", "open", "for_line", "json_loads",
               "process_message", "if_processed"}

\* the last_position values a caller passes; main passes 0
LastPositionArgs == {0, 53}

\* logger.info(f"   {last_position=}")
PositionLog(arg) == "last_position=" \o ToString(arg)

\* The call: the parameters are logged, then 1. init_db(sql_path).  init_db
\* is outside the try of the loop: when it raises, main's `except Exception`
\* logs the error and main returns.
ConsumeInit ==
    /\ pc = "consume"
    /\ \E arg \in LastPositionArgs, ok \in BOOLEAN :
         /\ last_position' = arg
         /\ IF ok
              THEN /\ dbExists' = TRUE
                   /\ store' = init_db(store)
                   /\ pc' = "reset_position"
                   /\ log' = Append(log, PositionLog(arg))
                   /\ UNCHANGED <<exitStatus, cause>>
              ELSE /\ Exit(EXIT_CLEAN, "init_consume",
                           <<PositionLog(arg), "error">>)
                   /\ UNCHANGED <<dbExists, store>>
    /\ UNCHANGED <<priorStore, file, terminated, fileExists, idx, message,
                   processed_message, handleOpen, opens, decodeCalls,
                   insertCalls>>

\* the reset left out: the offset the caller passed is kept
ResetPosition_skip ==
    /\ pc = "reset_position"
    /\ pc' = "open"
    /\ UNCHANGED <<exitStatus, cause, priorStore, file, terminated, fileExists,
                   last_position, idx, message, processed_message, dbExists,
                   store, handleOpen, opens, decodeCalls, insertCalls, log>>

\* 2. last_position = 0
ResetPosition ==
    /\ pc = "reset_position"
    /\ last_position' = 0
    /\ pc' = "open"
    /\ UNCHANGED <<exitStatus, cause, priorStore, file, terminated, fileExists,
                   idx, message, processed_message, dbExists, store,
                   handleOpen, opens, decodeCalls, insertCalls, log>>

\* file.seek(pos): the number of lines that end at or before byte pos
seek(f, term, pos) ==
    CHOOSE i \in 0..Len(f) :
      /\ Offset(f, term, i) <= pos
      /\ i < Len(f) => Offset(f, term, i + 1) > pos

\* 3. open(live_data_path) and file.seek(last_position);
\* FileNotFoundError: sys.exit(10)
OpenFile ==
    /\ pc = "open"
    /\ IF fileExists
         THEN /\ handleOpen' = TRUE
              /\ opens' = opens + 1
              /\ idx' = seek(file, terminated, last_position)
              /\ pc' = "for_line"
              /\ UNCHANGED <<exitStatus, cause, log>>
         ELSE /\ Exit(EXIT_NOT_FOUND, "not_found", <<"error">>)
              /\ UNCHANGED <<handleOpen, opens, idx>>
    /\ UNCHANGED <<priorStore, file, terminated, fileExists, last_position, message,
                   processed_message, dbExists, store, decodeCalls,
                   insertCalls>>

\* the read error of a file opened without `with`: the handle stays open
ReadError_leak ==
    /\ \/ pc = "open" /\ fileExists
       \/ pc = "for_line"
    /\ Exit(EXIT_READ_ERROR, "read", <<"error">>)
    /\ UNCHANGED <<priorStore, file, terminated, fileExists, last_position,
                   idx, message, processed_message, dbExists, store,
                   handleOpen, opens, decodeCalls, insertCalls>>

\* any other exception of open() or of reading a line: sys.exit(11)
ReadError ==
    /\ \/ pc = "open" /\ fileExists
       \/ pc = "for_line"
    /\ handleOpen' = FALSE
    /\ Exit(EXIT_READ_ERROR, "read", <<"error">>)
    /\ UNCHANGED <<priorStore, file, terminated, fileExists, last_position, idx, message,
                   processed_message, dbExists, store, opens, decodeCalls,
                   insertCalls>>

\* for line in file: the next line; a blank line is skipped (continue).
\* The last line is yielded whether or not it ends in a newline.
ForLine ==
    /\ pc = "for_line"
    /\ idx < Len(file)
    /\ idx' = idx + 1
    /\ pc' = IF IsBlank(file[idx + 1]) THEN "for_line" ELSE "json_loads"
    /\ UNCHANGED <<exitStatus, cause, priorStore, file, terminated, fileExists,
                   last_position, message, processed_message, dbExists, store,
                   handleOpen, opens, decodeCalls, insertCalls, log>>

\* message = json.loads(line.strip()); JSONDecodeError is an Exception, so
\* the handler of the loop logs it and calls sys.exit(11)
JsonLoads ==
    /\ pc = "json_loads"
    /\ decodeCalls' = Append(decodeCalls, idx)
    /\ LET r == json_loads(file[idx])
       IN IF r.ok
            THEN /\ message' = r.val
                 /\ pc' = "process_message"
                 /\ UNCHANGED <<exitStatus, cause, log, handleOpen>>
            ELSE /\ handleOpen' = FALSE
                 /\ Exit(EXIT_READ_ERROR, "decode", <<"error">>)
                 /\ UNCHANGED message
    /\ UNCHANGED <<priorStore, file, terminated, fileExists, last_position, idx,
                   processed_message, dbExists, store, opens, insertCalls>>

\* processed_message = process_message(message); a failure is logged
ProcessMessage ==
    /\ pc = "process_message"
    /\ processed_message' = process_message(message)
    /\ log' = IF processed_message'.some THEN log ELSE Append(log, "error")
    /\ pc' = "if_processed"
    /\ UNCHANGED <<exitStatus, cause, priorStore, file, terminated, fileExists,
                   last_position, idx, message, dbExists, store, handleOpen,
                   opens, decodeCalls, insertCalls>>

\* if processed_message: insert_message(processed_message, sql_path).
\* An exception of insert_message reaches the handler of the loop.
InsertMessage ==
    /\ pc = "if_processed"
    /\ IF Truthy(processed_message)
         THEN /\ insertCalls' = Append(insertCalls, <<idx, processed_message>>)
              /\ \E outcome \in InsertOutcomes :
                   IF outcome = "ok"
                     THEN /\ store' = insert_message(processed_message, store)
                          /\ pc' = "for_line"
                          /\ UNCHANGED <<exitStatus, cause, log, handleOpen>>
                     ELSE /\ handleOpen' = FALSE
                          /\ Exit(EXIT_READ_ERROR, "insert", <<"error">>)
                          /\ UNCHANGED store
         ELSE /\ pc' = "for_line"
              /\ UNCHANGED <<insertCalls, store, exitStatus, cause, log,
                             handleOpen>>
    /\ UNCHANGED <<priorStore, file, terminated, fileExists, last_position, idx, message,
                   processed_message, dbExists, opens, decodeCalls>>

\* EOF without the return: the position is kept and the loop goes to sleep
Eof_poll ==
    /\ pc = "for_line"
    /\ idx = Len(file)
    /\ last_position' = Offset(file, terminated, Len(file))
    /\ handleOpen' = FALSE
    /\ pc' = "sleep"
    /\ UNCHANGED <<exitStatus, cause, log, priorStore, file, terminated,
                   fileExists, idx, message, processed_message, dbExists,
                   store, opens, decodeCalls, insertCalls>>

\* EOF: last_position = file.tell(); return last_position; main returns
Eof ==
    /\ pc = "for_line"
    /\ idx = Len(file)
    /\ last_position' = Offset(file, terminated, Len(file))
    /\ handleOpen' = FALSE
    /\ Exit(EXIT_CLEAN, "eof", <<>>)
    /\ UNCHANGED <<priorStore, file, terminated, fileExists, idx, message,
                   processed_message, dbExists, store, opens, decodeCalls,
                   insertCalls>>

\* KeyboardInterrupt caught by the `except` of the loop like a read error
Interrupt_as_exception ==
    /\ pc \in ConsumePcs
    /\ handleOpen' = FALSE
    /\ Exit(EXIT_READ_ERROR, "interrupt", <<"error">>)
    /\ UNCHANGED <<priorStore, file, terminated, fileExists, last_position,
                   idx, message, processed_message, dbExists, store, opens,
                   decodeCalls, insertCalls>>

\* KeyboardInterrupt inside consume_messages_from_file: not an Exception, so
\* only main's `except KeyboardInterrupt` handles it (a warning) and main
\* returns
Interrupt ==
    /\ pc \in ConsumePcs
    /\ handleOpen' = FALSE
    /\ Exit(EXIT_CLEAN, "interrupt", <<"warning">>)
    /\ UNCHANGED <<priorStore, file, terminated, fileExists, last_position, idx, message,
                   processed_message, dbExists, store, opens, decodeCalls,
                   insertCalls>>

----------------------------------------------------------------------------

Next ==
    \/ ReadConfig
    \/ DeletePrior
    \/ InitDb
    \/ ConsumeInit
    \/ ResetPosition
    \/ OpenFile
    \/ ReadError
    \/ ForLine
    \/ JsonLoads
    \/ ProcessMessage
    \/ InsertMessage
    \/ Eof
    \/ Interrupt

Spec == Init /\ [][Next]_vars

\* the single flow of control always takes its next step
FairSpec == Spec /\ WF_vars(Next)

----------------------------------------------------------------------------
(* process_message on its own: one decoded record in, one result out *)

SentimentInputs ==
    {RFloat(h) : h \in -ScoreMax..ScoreMax} \cup
    {RFloat(-500), RFloat(500), RInt(-1), RInt(0), RInt(1), RAbsent, RNull,
     RNaN, RHuge, RBool(TRUE), RStr("N/A"), RStr("0.9"), RStr("-0.9")}

LengthInputs ==
    {RInt(-5), RInt(0), RInt(5), RInt(10), RFloat(370), RFloat(-370),
     RAbsent, RNull, RNaN, RHuge, RStr("5"), RStr("3.7")}

EnrichInputs ==
    {Obj(RStr("hi"), s, m) : s \in SentimentInputs, m \in LengthInputs}
    \cup {Obj(msg, RAbsent, RAbsent) : msg \in {RAbsent, RNull}}
    \cup {NoMessage}

InitEnrich ==
    /\ pc = "process_message"
    /\ message \in EnrichInputs
    /\ exitStatus = Running
    /\ cause = "none"
    /\ fileExists = TRUE
    /\ file = <<>>
    /\ terminated = TRUE
    /\ last_position = 0
    /\ idx = 0
    /\ processed_message = None
    /\ dbExists = TRUE
    /\ store = <<>>
    /\ priorStore = <<>>
    /\ handleOpen = TRUE
    /\ opens = 1
    /\ decodeCalls = <<>>
    /\ insertCalls = <<>>
    /\ log = <<>>

NextEnrich == ProcessMessage

SpecEnrich == InitEnrich /\ [][NextEnrich]_vars

----------------------------------------------------------------------------
(* Vocabulary of the properties *)

FatalStatuses == {EXIT_CONFIG, EXIT_DELETE, EXIT_INIT, EXIT_NOT_FOUND,
                  EXIT_READ_ERROR}

\* line i of the file ends in a newline
Complete(i) == i < Len(file) \/ terminated

\* the line numbers json.loads / insert_message were called for
DecodedLines == {decodeCalls[k] : k \in DOMAIN decodeCalls}
InsertedLines == {insertCalls[k][1] : k \in DOMAIN insertCalls}

\* the line is a JSON text whose record the enricher turns into a row
Accepted(line) == line.kind = "json" /\ process_message(line.val).some

\* the line is a JSON text and float(sentiment), int(message_length) succeed
DecodedAndCoerced(line) ==
    /\ line.kind = "json"
    /\ line.val.isdict
    /\ py_float(py_get(line.val.sentiment, RFloat(0))).ok
    /\ py_int(py_get(line.val.message_length, RInt(0))).ok

\* the line is a JSON object whose sentiment or message_length is a value
\* that is not a number: a text such as "N/A" or "3.7" (for the integer), null
NonCoercible(line) ==
    /\ line.kind = "json"
    /\ line.val.isdict
    /\ \/ line.val.sentiment \in {RStr("N/A"), RNull}
       \/ line.val.message_length \in {RStr("N/A"), RStr("3.7"), RNull, RNaN}

\* the loop is done with line i: it went on to fetch the next line
Handled(i) == i < idx \/ (i = idx /\ (pc = "for_line" \/ cause = "eof"))

\* the rows of the table that this run stored
RunRows == [k \in DOMAIN insertCalls |-> insertCalls[k][2]]

----------------------------------------------------------------------------
(* C1: a complete non-blank line that is not valid JSON is logged and       *)
(* skipped: the decode failure never ends the process with a fatal exit     *)
(* status, and in a pass that reaches the end of the file every valid line  *)
(* has been inserted.                                                       *)
C1_InvalidJsonSkipped ==
    /\ ~(cause = "decode" /\ Complete(idx) /\ exitStatus \in FatalStatuses)
    /\ \A i \in 1..Len(file) :
         (file[i].kind = "badjson" /\ Complete(i) /\ i \in DecodedLines
            /\ pc = "done")
         => \/ cause \in {"read", "insert", "interrupt"}
            \/ \A j \in 1..Len(file) : Accepted(file[j]) => j \in InsertedLines

(* C2: a trailing segment without a newline is never decoded, enriched or   *)
(* inserted, and the last_position recorded at the end of the pass is not   *)
(* past the first byte of that segment.                                     *)
C2_PartialLineNotConsumed ==
    (Len(file) > 0 /\ ~terminated)
    => /\ Len(file) \notin DecodedLines
       /\ Len(file) \notin InsertedLines
       /\ cause = "eof"
            => last_position <= Offset(file, terminated, Len(file) - 1)

(* C3: a failure signalled by insert_message is absorbed: it does not end   *)
(* the process with a fatal exit status, the loop goes on to the next line. *)
C3_InsertFailureAbsorbed ==
    ~(cause = "insert" /\ exitStatus \in FatalStatuses)

(* C4 as stated: for every complete non-blank line the loop is done with,  *)
(* insert_message was called for it if and only if the line decoded as     *)
(* JSON and the coercions of sentiment and message_length both succeeded.  *)
C4_InsertIffDecodedAndCoerced ==
    /\ \A i \in InsertedLines : DecodedAndCoerced(file[i])
    /\ \A i \in 1..Len(file) :
         (Handled(i) /\ Complete(i) /\ ~IsBlank(file[i]))
         => (i \in InsertedLines <=> DecodedAndCoerced(file[i]))

(* C4 amended: for every complete non-blank line the loop is done with,    *)
(* insert_message was called for it if and only if the line decoded as     *)
(* JSON and process_message returned a record (both coercions succeeded    *)
(* and the engagement score could be computed); no row is ever inserted    *)
(* for a line whose decoding or coercion failed.                           *)
C4_InsertIffEnriched ==
    /\ \A i \in InsertedLines : Accepted(file[i]) /\ DecodedAndCoerced(file[i])
    /\ \A k \in DOMAIN insertCalls : insertCalls[k][2].some
    /\ \A i \in 1..Len(file) :
         (Handled(i) /\ Complete(i) /\ ~IsBlank(file[i]))
         => (i \in InsertedLines <=> Accepted(file[i]))

\* a pass reached the end of a file holding an accepted line, which was
\* inserted, and a JSON line the enricher rejected, which was not
C4_Witness ==
    /\ cause = "eof"
    /\ terminated
    /\ \E i, j \in 1..Len(file) :
         /\ Accepted(file[i]) /\ i \in InsertedLines
         /\ file[j].kind = "json" /\ ~Accepted(file[j])
         /\ j \notin InsertedLines

RECURSIVE ExpectedCalls(_)
\* the insert_message calls that lines 1..n of the file give rise to
ExpectedCalls(n) ==
    IF n = 0 THEN <<>>
    ELSE IF Accepted(file[n])
           THEN Append(ExpectedCalls(n - 1),
                       <<n, process_message(json_loads(file[n]).val)>>)
           ELSE ExpectedCalls(n - 1)

(* C5: in every state the rows passed to insert_message so far are the     *)
(* enrichments of the accepted lines read so far, in file order, one row   *)
(* per line, each with the label and score of its own line; the lines      *)
(* "hi" (0.9, 10) then "bye" (-0.9, 5) give Very Positive / 9.0 then Very  *)
(* Negative / 4.5.                                                         *)
C5_RowsInFileOrder ==
    /\ insertCalls \in {ExpectedCalls(idx), ExpectedCalls(IF idx = 0 THEN 0 ELSE idx - 1)}
    /\ pc = "for_line" => insertCalls = ExpectedCalls(idx)
    /\ \A k, l \in DOMAIN insertCalls : k < l => insertCalls[k][1] < insertCalls[l][1]
    /\ (file = <<LineHi, LineBye>> /\ cause = "eof")
         => /\ Len(insertCalls) = 2
            /\ RunRows[1].sentiment_label = "Very Positive"
            /\ RunRows[1].engagement_score = Fin(900)
            /\ RunRows[2].sentiment_label = "Very Negative"
            /\ RunRows[2].engagement_score = Fin(450)

\* the two-line file of the example was read to its end
C5_Witness ==
    /\ file = <<LineHi, LineBye>>
    /\ cause = "eof"
    /\ Len(insertCalls) = 2
    /\ store = RunRows

(* C6: a decoded record whose sentiment or message_length cannot be        *)
(* coerced to a number makes process_message return None, gives no         *)
(* insert_message call and no exit, and the loop goes on: the accepted     *)
(* lines after it are stored when the pass reaches the end of the file.    *)
C6_CoercionFailureSkipped ==
    /\ [][(pc = "process_message" /\ NonCoercible(file[idx]))
            => \/ cause' = "interrupt"
               \/ /\ pc' = "if_processed"
                  /\ ~processed_message'.some
                  /\ exitStatus' = Running]_vars
    /\ [][(pc = "if_processed" /\ NonCoercible(file[idx]))
            => \/ cause' = "interrupt"
               \/ /\ pc' = "for_line"
                  /\ exitStatus' = Running
                  /\ insertCalls' = insertCalls
                  /\ store' = store]_vars
    /\ [](\A i \in 1..Len(file) :
            NonCoercible(file[i])
            => /\ i \notin InsertedLines
               /\ cause = "eof"
                    => \A j \in (i + 1)..Len(file) :
                         Accepted(file[j])
                         => \E k \in DOMAIN store :
                              store[k] = process_message(file[j].val))

\* a pass ended normally on a file with a sentiment "N/A" line followed by
\* an accepted line, whose row is stored
C6_Witness ==
    /\ cause = "eof"
    /\ Len(file) = 2
    /\ file[1] = LineNA
    /\ Accepted(file[2])
    /\ InsertedLines = {2}
    /\ Len(store) = 1

(* C7: when the live data file does not exist at open(), the process ends  *)
(* with exit status 10 and insert_message was never called.                *)
C7_MissingFileExit10 ==
    /\ [][(pc = "open" /\ ~fileExists)
            => \/ cause' = "interrupt"
               \/ pc' = "done" /\ exitStatus' = 10 /\ cause' = "not_found"]_vars
    /\ [](~fileExists => insertCalls = <<>> /\ opens = 0)
    /\ [](cause = "not_found"
            => ~fileExists /\ exitStatus = 10 /\ insertCalls = <<>>)

\* the run ended at open() of a missing file
C7_Witness ==
    /\ pc = "done"
    /\ ~fileExists
    /\ cause = "not_found"
    /\ exitStatus = 10
    /\ insertCalls = <<>>

(* C8: for every record whose sentiment and message_length coerce, the     *)
(* engagement_score of the enriched record is >= 0 and equals              *)
(* |sentiment| * message_length.                                           *)
C8_EngagementNonNegative ==
    (/\ pc = "if_processed"
     /\ processed_message.some
     /\ message.sentiment.t \in {"int", "float"}
     /\ message.message_length.t = "int")
    => /\ processed_message.engagement_score.k = "fin"
       /\ processed_message.engagement_score.v >= 0
       /\ processed_message.engagement_score.v
            = Abs(processed_message.sentiment.v)
                * processed_message.message_length

Labels == {"Very Negative", "Negative", "Neutral", "Positive", "Very Positive"}

(* C9: the label of every enriched record is one of the five labels and    *)
(* follows the threshold table: score <= -0.60 Very Negative, -0.60 <      *)
(* score < -0.20 Negative, -0.20 <= score <= 0.20 Neutral, 0.20 < score <  *)
(* 0.60 Positive, score >= 0.60 Very Positive.                             *)
C9_ClassifyTable ==
    (pc = "if_processed" /\ processed_message.some)
    => LET score == processed_message.sentiment
           label == processed_message.sentiment_label
       IN /\ label \in Labels
          /\ score.k = "fin"
               => /\ score.v <= -60 => label = "Very Negative"
                  /\ (-60 < score.v /\ score.v < -20) => label = "Negative"
                  /\ (-20 <= score.v /\ score.v <= 20) => label = "Neutral"
                  /\ (20 < score.v /\ score.v < 60) => label = "Positive"
                  /\ score.v >= 60 => label = "Very Positive"

\* the boundary score -0.60 was enriched and labelled Very Negative
C9_Witness ==
    /\ pc = "if_processed"
    /\ processed_message.some
    /\ processed_message.sentiment = Fin(-60)
    /\ processed_message.sentiment_label = "Very Negative"

(* C10: configuration unreadable, failure to delete a prior store, failure *)
(* to initialize the fresh store, live data file not found and unexpected  *)
(* read error end the process with the statuses 1, 2, 3, 10 and 11; the    *)
(* five statuses are pairwise different and none is the clean status.      *)
C10_FatalStatuses ==
    /\ cause = "config" => pc = "done" /\ exitStatus = 1
    /\ cause = "delete" => pc = "done" /\ exitStatus = 2
    /\ cause = "init" => pc = "done" /\ exitStatus = 3
    /\ cause = "not_found" => pc = "done" /\ exitStatus = 10
    /\ cause = "read" => pc = "done" /\ exitStatus = 11
    /\ Cardinality(FatalStatuses \cup {EXIT_CLEAN}) = 6
    /\ pc /= "done" => exitStatus = Running

\* the deletion of a prior database file failed and ended the process
C10_Witness ==
    /\ pc = "done"
    /\ cause = "delete"
    /\ exitStatus = 2
    /\ dbExists

(* C11: whatever the store held when the process started (nothing, rows   *)
(* of another run, the rows of an earlier run over the same file), after a *)
(* run that ends normally the store holds exactly the rows inserted during *)
(* this run, which are the rows of the file: none of the prior rows is     *)
(* left and a second run over the same file leaves the same rows.          *)
C11_StoreReset ==
    cause = "eof"
    => /\ store = RunRows
       /\ store = RowsOfFile(file)
       /\ \A k \in DOMAIN store : store[k] /= PriorRow

\* a run over two accepted lines ended normally on a store that held a row
\* of a prior run
C11_Witness ==
    /\ cause = "eof"
    /\ priorStore = <<PriorRow>>
    /\ Len(store) = 2
    /\ store = RowsOfFile(file)

(* C12: enriching a record that has neither a sentiment nor a              *)
(* message_length field succeeds and yields sentiment 0.0, message_length  *)
(* 0, label Neutral and engagement score 0; the message field is copied    *)
(* through, None when the record has none.                                 *)
C12_MissingFieldsDefault ==
    (/\ pc = "if_processed"
     /\ message.isdict
     /\ message.sentiment = RAbsent
     /\ message.message_length = RAbsent)
    => /\ processed_message.some
       /\ processed_message.sentiment = Fin(0)
       /\ processed_message.message_length = 0
       /\ processed_message.sentiment_label = "Neutral"
       /\ processed_message.engagement_score = Fin(0)
       /\ processed_message.message
            = (IF message.message = RAbsent THEN RNull ELSE message.message)

\* the empty object {} was enriched
C12_Witness ==
    /\ pc = "if_processed"
    /\ message = Obj(RAbsent, RAbsent, RAbsent)
    /\ processed_message.some
    /\ processed_message.sentiment_label = "Neutral"
    /\ processed_message.message = RNull

Rank(label) ==
    CASE label = "Very Negative" -> 1
      [] label = "Negative" -> 2
      [] label = "Neutral" -> 3
      [] label = "Positive" -> 4
      [] label = "Very Positive" -> 5

\* the scores the label of an enriched record is compared with
ScoreGrid == (-ScoreMax..ScoreMax) \cup {-500, 500}

(* C13: classify_sentiment is monotonic: the label rank of an enriched     *)
(* record is at most the rank of the label of every score above its        *)
(* sentiment and at least the rank of the label of every score below it.   *)
C13_ClassifyMonotonic ==
    (/\ pc = "if_processed"
     /\ processed_message.some
     /\ processed_message.sentiment.k = "fin")
    => \A b \in ScoreGrid :
         LET a == processed_message.sentiment.v
             ra == Rank(processed_message.sentiment_label)
             rb == Rank(classify_sentiment(Fin(b)))
         IN /\ a <= b => ra <= rb
            /\ b <= a => rb <= ra

\* the score 0.20 was labelled Neutral and the next score up is Positive
C13_Witness ==
    /\ pc = "if_processed"
    /\ processed_message.some
    /\ processed_message.sentiment = Fin(20)
    /\ Rank(processed_message.sentiment_label) = 3
    /\ Rank(classify_sentiment(Fin(21))) = 4

(* C14: whenever init_db fails, in main's STEP 3 or at step 1 of           *)
(* consume_messages_from_file, the process ends with the                   *)
(* store-initialization-failure status 3 and insert_message is never       *)
(* called.                                                                 *)
C14_InitFailureExit3 ==
    cause \in {"init", "init_consume"}
    => /\ pc = "done"
       /\ exitStatus = EXIT_INIT
       /\ exitStatus \notin {EXIT_CLEAN, EXIT_CONFIG, EXIT_DELETE,
                             EXIT_NOT_FOUND, EXIT_READ_ERROR}
       /\ insertCalls = <<>>

(* C15: a KeyboardInterrupt that arrives while consume_messages_from_file  *)
(* runs, between or during the processing of lines, is a graceful          *)
(* shutdown: a warning is logged, the exit status is the clean one (not 10 *)
(* or 11), the read handle is released and no insert happens afterwards.   *)
C15_InterruptGraceful ==
    /\ [](cause = "interrupt"
            => /\ pc = "done"
               /\ exitStatus = 0
               /\ exitStatus \notin FatalStatuses
               /\ log /= <<>> /\ log[Len(log)] = "warning"
               /\ ~handleOpen)
    /\ [][cause = "interrupt"
            => insertCalls' = insertCalls /\ store' = store]_vars
    /\ [](pc \in ConsumePcs => ENABLED Interrupt)

\* the interrupt arrived while the second line was being processed, after
\* the row of the first line was stored
C15_Witness ==
    /\ cause = "interrupt"
    /\ exitStatus = 0
    /\ Len(store) = 1
    /\ decodeCalls = <<1, 2>>
    /\ idx = 2

(* C16: every call of consume_messages_from_file ends after at most one    *)
(* pass: the file is opened at most once, the sleep of line 131 is never   *)
(* reached, and a run that no interrupt stops ends either by returning the *)
(* end-of-file offset or by sys.exit(10) / sys.exit(11) (or, before the    *)
(* loop, by the exception of init_db).                                     *)
C16_SinglePass ==
    /\ [](opens <= 1)
    /\ [](pc /= "sleep")
    /\ [](cause = "eof"
            => /\ pc = "done" /\ exitStatus = 0 /\ opens = 1
               /\ last_position = Offset(file, terminated, Len(file)))
    /\ [](cause = "not_found" => pc = "done" /\ exitStatus = 10 /\ opens = 0)
    /\ [](cause \in {"read", "decode", "insert"}
            => pc = "done" /\ exitStatus = 11)
    /\ [](pc = "done" /\ opens = 1
            => cause \in {"eof", "read", "decode", "insert", "interrupt"})
    /\ <>(pc = "done")

\* a pass over two lines returned at the first end-of-file
C16_Witness ==
    /\ pc = "done"
    /\ cause = "eof"
    /\ opens = 1
    /\ idx = 2
    /\ last_position > 0

\* the log entries of the parameter last_position
LoggedArgs == {log[k] : k \in DOMAIN log}

(* C17: last_position is 0 when the first pass begins, whatever value the  *)
(* caller passed, and never decreases afterwards; it is never negative,    *)
(* and the rows stored and the offset returned are those of the file,      *)
(* whatever the argument was.                                              *)
C17_PositionResetMonotonic ==
    /\ [](pc \in {"open", "for_line", "json_loads", "process_message",
                  "if_processed"} => last_position = 0)
    /\ [](last_position >= 0)
    /\ [][pc \notin {"consume", "reset_position"}
            => last_position' >= last_position]_vars
    /\ [](cause = "eof"
            => /\ last_position = Offset(file, terminated, Len(file))
               /\ store = RowsOfFile(file))

\* the caller passed 53 and the pass over a two-line file returned the
\* end-of-file offset
C17_Witness ==
    /\ cause = "eof"
    /\ "last_position=53" \in LoggedArgs
    /\ Len(file) = 2
    /\ last_position = Offset(file, terminated, 2)
    /\ last_position > 53

(* C18: the read handle is closed in every state in which the pass has    *)
(* ended (normal return, fatal exit in the middle of the pass, interrupt)  *)
(* and at most one handle is ever open: the file is opened at most once    *)
(* and the handle exists only while lines are read.                        *)
C18_HandleReleased ==
    /\ pc = "done" => ~handleOpen
    /\ handleOpen
         => /\ opens = 1
            /\ pc \in {"for_line", "json_loads", "process_message",
                       "if_processed"}
    /\ opens <= 1

\* a read error after the first line ended the pass and the handle is closed
C18_Witness ==
    /\ pc = "done"
    /\ cause = "read"
    /\ opens = 1
    /\ idx = 1
    /\ ~handleOpen

NotBlankLine(line) == line.kind /= "blank"

(* C19: a blank or whitespace-only line, wherever it is in the file, is    *)
(* skipped silently: json.loads and insert_message are never called for    *)
(* it, the step that reads it changes neither the store nor the log nor    *)
(* the exit status, and a pass that reaches the end of the file stores the *)
(* rows of the file without its blank lines.                               *)
C19_BlankSkipped ==
    /\ [](\A i \in 1..Len(file) :
            file[i].kind = "blank"
            => i \notin DecodedLines /\ i \notin InsertedLines)
    /\ [][(/\ pc = "for_line"
           /\ idx < Len(file)
           /\ idx' = idx + 1
           /\ file[idx + 1].kind = "blank")
            => /\ pc' = "for_line"
               /\ exitStatus' = Running
               /\ cause' = cause
               /\ store' = store
               /\ log' = log
               /\ insertCalls' = insertCalls
               /\ decodeCalls' = decodeCalls]_vars
    /\ [](cause = "eof" => store = RowsOfFile(SelectSeq(file, NotBlankLine)))

\* a blank line before an accepted line: one row, one json.loads call
C19_Witness ==
    /\ cause = "eof"
    /\ file = <<LineBlank, LineHi>>
    /\ decodeCalls = <<2>>
    /\ Len(store) = 1
    /\ log = <<"last_position=0">>

\* the rows whose insert_message call succeeded
StoredRows ==
    IF cause = "insert" THEN SubSeq(RunRows, 1, Len(insertCalls) - 1)
    ELSE RunRows

(* C20: when consume_messages_from_file returns, last_position is the      *)
(* end-of-file offset (107 for the 52- and 53-byte lines of the example,   *)
(* each with its newline) and every non-blank line was decoded and either  *)
(* inserted or rejected by process_message; when the run ends by           *)
(* sys.exit(10) or sys.exit(11), the rows inserted before stay in the      *)
(* store and last_position is not updated.                                 *)
C20_ReturnedOffset ==
    /\ cause = "eof"
         => /\ last_position = Offset(file, terminated, Len(file))
            /\ \A i \in 1..Len(file) :
                 file[i].kind /= "blank"
                 => /\ i \in DecodedLines
                    /\ \/ i \in InsertedLines
                       \/ ~process_message(file[i].val).some
    /\ (cause = "eof" /\ file = <<LineHi, LineBye>>)
         => last_position = (IF terminated THEN 107 ELSE 106)
    /\ exitStatus \in {10, 11}
         => /\ last_position = 0
            /\ store = StoredRows

\* the two-line example was read to its end: 52 + 1 + 53 + 1 bytes
C20_Witness ==
    /\ cause = "eof"
    /\ file = <<LineHi, LineBye>>
    /\ terminated
    /\ last_position = 107
    /\ InsertedLines = {1, 2}

====
